---- MODULE Spec2Model ----
(***************************************************************************)
(* Model of the two Open-WebUI pipelines of this repository:               *)
(*   src/Azure_DeepSeekR1.py            (Pipeline, pop_system_message)     *)
(*   src/Azure_Openai_Chatgpt_o1mini.py (Pipeline)                         *)
(* One call of Pipeline.pipe is followed from its entry to its return (or  *)
(* to the exception that leaves it), together with the requests it puts on *)
(* the wire and, for DeepSeekR1, the reconfiguration of valves and client. *)
(***************************************************************************)
EXTENDS Integers, Sequences, FiniteSets, TLC

VARIABLES
  impl,                 \* which Pipeline class is running
  pc,                   \* position of the pipe call
  valves,               \* self.valves
  client,               \* self.client (DeepSeekR1 only)
  rpc,                  \* position of the reconfiguration
  messages,             \* argument messages, as passed by the caller
  body_in,              \* argument body, as passed by the caller
  body,                 \* the body dict, which pipe mutates in place
  transport,            \* what the endpoint will answer to this call
  system_message,       \* local of DeepSeekR1 pipe
  updated_messages,     \* local messages after pop_system_message
  DeepSeekR1_messages,  \* provider messages built by DeepSeekR1 pipe
  filtered_body,        \* local filtered_body
  bound_client,         \* the client object on which complete is called
  wire,                 \* requests issued to the network so far
  result                \* what the call gave back to its caller

vars == <<impl, pc, valves, client, rpc, messages, body_in, body, transport,
          system_message, updated_messages, DeepSeekR1_messages,
          filtered_body, bound_client, wire, result>>

----------------------------------------------------------------------------
(* Bounds *)

MaxMsgs == 3
MaxChunks == 3
MaxReconf == 2

----------------------------------------------------------------------------
(* Python values of the body dict: a type tag and a printable value *)

PyVal(t, v) == [type |-> t, val |-> v]

Absent == PyVal("absent", "")

PyTrue == PyVal("bool", "True")

PyFalse == PyVal("bool", "False")

UserStr == PyVal("str", "u0")

UserObj == PyVal("dict", "u1")

UserObjNoId == PyVal("dict_noid", "{'name': 'n'}")

UserList == PyVal("list", "['u1']")

Truthy(v) ==
  CASE v.type = "bool" -> v.val = "True"
    [] v.type = "str" -> v.val # ""
    [] v.type = "num" -> v.val # "0"
    [] v.type = "absent" -> FALSE
    [] OTHER -> TRUE

Get(d, k, default) == IF k \in DOMAIN d THEN d[k] ELSE default

Filter_unfiltered(d, allowed) == d

Filter(d, allowed) == [x \in (DOMAIN d) \cap allowed |-> d[x]]

BodyKeys == {"user", "chat_id", "title", "stream", "temperature", "seed", "foo"}

MkBody(opt) == [k \in {x \in BodyKeys : opt[x] # Absent} |-> opt[k]]

----------------------------------------------------------------------------
(* Configuration snapshots.  Snapshot 0 is the set of defaults that        *)
(* __init__ takes when the environment is unset (the "your-...-here"       *)
(* placeholders); every other snapshot is identified by its number.        *)

Config(k) == [endpoint |-> k, credential |-> k, model |-> k]

ChatCompletionsClient(v) == [endpoint |-> v.endpoint, credential |-> v.credential]

NoClient == [endpoint |-> -1, credential |-> -1]

----------------------------------------------------------------------------
(* Results handed to the caller *)

NoResult == [type |-> "none", payload |-> "none", err |-> "none",
             details |-> "none", text |-> <<>>, items |-> <<>>]

StrResult(t) == [NoResult EXCEPT !.type = "str", !.payload = "completion", !.text = t]

ErrorStr(e, d) == [NoResult EXCEPT !.type = "str", !.payload = "error", !.err = e, !.details = d]

DictResult == [NoResult EXCEPT !.type = "dict", !.payload = "completion"]

IterResult(ls) == [NoResult EXCEPT !.type = "iter", !.payload = "completion", !.items = ls]

Raised(e) == [NoResult EXCEPT !.type = "raised", !.payload = "error", !.err = e]

----------------------------------------------------------------------------
(* Azure_DeepSeekR1.py *)

NoExc == "none"

PopResult(e, s, u) == [exc |-> e, system_message |-> s, updated_messages |-> u]

RECURSIVE pop_loop(_, _, _, _)
pop_loop(msgs, i, sysmsg, updated) ==
  IF i > Len(msgs) THEN PopResult(NoExc, sysmsg, updated)
  ELSE LET message == msgs[i] IN
    IF "role" \notin DOMAIN message THEN PopResult("KeyError", "", <<>>)
    ELSE IF message.role = "system"
      THEN IF "content" \notin DOMAIN message
             THEN PopResult("KeyError", "", <<>>)
             ELSE pop_loop(msgs, i + 1, message.content, updated)
      ELSE pop_loop(msgs, i + 1, sysmsg, Append(updated, message))

RECURSIVE pop_loop_first(_, _, _, _)
pop_loop_first(msgs, i, sysmsg, updated) ==
  IF i > Len(msgs) THEN PopResult(NoExc, sysmsg, updated)
  ELSE LET message == msgs[i] IN
    IF message.role = "system"
      THEN pop_loop_first(msgs, i + 1,
                          IF sysmsg = "" THEN message.content ELSE sysmsg, updated)
      ELSE pop_loop_first(msgs, i + 1, sysmsg, Append(updated, message))

pop_system_message_first_wins(msgs) == pop_loop_first(msgs, 1, "", <<>>)

pop_system_message(msgs) == pop_loop(msgs, 1, "", <<>>)

SystemMessage(c) == [type |-> "SystemMessage", content |-> c]

UserMessage(c) == [type |-> "UserMessage", content |-> c]

AssistantMessage(c) == [type |-> "AssistantMessage", content |-> c]

ProviderMessage_assistant_only(msg) ==
  IF msg.role = "assistant" THEN AssistantMessage(msg.content)
  ELSE IF msg.role = "system" THEN SystemMessage(msg.content)
  ELSE UserMessage(msg.content)

ProviderMessage(msg) ==
  IF msg.role = "user" THEN UserMessage(msg.content)
  ELSE IF msg.role = "system" THEN SystemMessage(msg.content)
  ELSE AssistantMessage(msg.content)

BuildResult(e, ms) == [exc |-> e, msgs |-> ms]

RECURSIVE build_loop(_, _, _)
build_loop(msgs, i, acc) ==
  IF i > Len(msgs) THEN BuildResult(NoExc, acc)
  ELSE IF "content" \notin DOMAIN msgs[i] THEN BuildResult("KeyError", <<>>)
  ELSE build_loop(msgs, i + 1, Append(acc, ProviderMessage(msgs[i])))

BuildMessages(sysmsg, msgs) ==
  build_loop(msgs, 1, IF sysmsg # "" THEN <<SystemMessage(sysmsg)>> ELSE <<>>)

DS_strip_keys == {"user", "chat_id", "title"}

DS_allowed_params ==
  {"temperature", "max_tokens", "presence_penalty", "frequency_penalty", "top_p"}

DS_StripBody(b) == [x \in (DOMAIN b) \ DS_strip_keys |-> b[x]]

is_stream(b) == Truthy(Get(b, "stream", PyFalse))

Request(c, model, msgs, params, stream) ==
  [endpoint |-> c.endpoint, credential |-> c.credential, model |-> model,
   messages |-> msgs, params |-> params, stream |-> stream]

ClientComplete_retry(w, req) == Append(Append(w, req), req)

ClientComplete(w, req) == Append(w, req)

AggResult(e, t) == [exc |-> e, text |-> t]

RECURSIVE aggregate(_, _, _)
aggregate(chunks, i, complete_response) ==
  IF i > Len(chunks) THEN AggResult(NoExc, complete_response)
  ELSE LET update == chunks[i] IN
    IF update.kind = "undecodable" THEN AggResult("DecodeError", complete_response)
    ELSE IF update.kind = "delta" /\ update.text # <<>>
      THEN aggregate(chunks, i + 1, complete_response \o update.text)
      ELSE aggregate(chunks, i + 1, complete_response)

TransportError(t) ==
  CASE t.fail = "connect" -> "ServiceRequestError"
    [] t.fail = "timeout" -> "ServiceResponseError"
    [] t.fail = "status" -> "HttpResponseError"
    [] OTHER -> NoExc

(* pipe, lines 98-141: strips the session keys from the caller's dict,     *)
(* normalises the messages, filters the parameters and enters              *)
(* stream_response or get_completion; any exception becomes an error.      *)
DS_Pipe ==
  /\ impl = "DeepSeekR1"
  /\ pc = "pipe"
  /\ body' = DS_StripBody(body)
  /\ LET p == pop_system_message(messages)
         b == BuildMessages(p.system_message, p.updated_messages)
     IN IF p.exc # NoExc
          THEN /\ result' = ErrorStr(p.exc, "none")
               /\ pc' = "done"
               /\ UNCHANGED <<system_message, updated_messages,
                              DeepSeekR1_messages, filtered_body>>
        ELSE IF b.exc # NoExc
          THEN /\ result' = ErrorStr(b.exc, "none")
               /\ pc' = "done"
               /\ system_message' = p.system_message
               /\ updated_messages' = p.updated_messages
               /\ UNCHANGED <<DeepSeekR1_messages, filtered_body>>
        ELSE /\ system_message' = p.system_message
             /\ updated_messages' = p.updated_messages
             /\ DeepSeekR1_messages' = b.msgs
             /\ filtered_body' = Filter(body', DS_allowed_params)
             /\ pc' = "bind"
             /\ UNCHANGED result
  /\ UNCHANGED <<impl, valves, client, rpc, messages, body_in, transport,
                 bound_client, wire>>

(* the attribute self.client.complete is evaluated before the arguments    *)
(* (lines 146 and 162)                                                     *)
DS_BindClient ==
  /\ impl = "DeepSeekR1"
  /\ pc = "bind"
  /\ bound_client' = client
  /\ pc' = "call"
  /\ UNCHANGED <<impl, valves, client, rpc, messages, body_in, body, transport,
                 system_message, updated_messages, DeepSeekR1_messages,
                 filtered_body, wire, result>>

(* get_completion, lines 160-174 *)
DS_GetCompletion ==
  /\ impl = "DeepSeekR1"
  /\ pc = "call"
  /\ ~is_stream(body)
  /\ wire' = ClientComplete(wire, Request(bound_client, valves.model,
                              DeepSeekR1_messages, filtered_body, FALSE))
  /\ result' =
       IF transport.fail # "none" THEN ErrorStr(TransportError(transport), "none")
       ELSE IF transport.body_fmt # "json" THEN ErrorStr("DecodeError", "none")
       ELSE IF transport.shape = "no_choices" THEN StrResult(<<>>)
       ELSE IF transport.shape = "missing_fields" THEN ErrorStr("AttributeError", "none")
       ELSE StrResult(transport.content)
  /\ pc' = "done"
  /\ UNCHANGED <<impl, valves, client, rpc, messages, body_in, body, transport,
                 system_message, updated_messages, DeepSeekR1_messages,
                 filtered_body, bound_client>>

(* stream_response, lines 143-158 *)
DS_StreamResponse ==
  /\ impl = "DeepSeekR1"
  /\ pc = "call"
  /\ is_stream(body)
  /\ wire' = ClientComplete(wire, Request(bound_client, valves.model,
                              DeepSeekR1_messages, filtered_body, TRUE))
  /\ result' =
       IF transport.fail # "none" THEN ErrorStr(TransportError(transport), "none")
       ELSE LET a == aggregate(transport.chunks, 1, <<>>)
            IN IF a.exc # NoExc THEN ErrorStr(a.exc, "none") ELSE StrResult(a.text)
  /\ pc' = "done"
  /\ UNCHANGED <<impl, valves, client, rpc, messages, body_in, body, transport,
                 system_message, updated_messages, DeepSeekR1_messages,
                 filtered_body, bound_client>>

(* the host replaces pipeline.valves by a new snapshot and then awaits     *)
(* on_valves_updated; reconfigurations follow one another on the host's    *)
(* event loop, pipe calls run in worker threads beside them                *)
SetValves ==
  /\ impl = "DeepSeekR1"
  /\ rpc = "idle"
  /\ valves.endpoint < MaxReconf
  /\ valves' = Config(valves.endpoint + 1)
  /\ rpc' = "valves_set"
  /\ UNCHANGED <<impl, pc, client, messages, body_in, body, transport,
                 system_message, updated_messages, DeepSeekR1_messages,
                 filtered_body, bound_client, wire, result>>

update_client_default_key(v) ==
  [endpoint |-> v.endpoint, credential |-> Config(0).credential]

update_client(v) == ChatCompletionsClient(v)

(* on_valves_updated, lines 90-91, calling update_client, lines 68-72 *)
on_valves_updated ==
  /\ impl = "DeepSeekR1"
  /\ rpc = "valves_set"
  /\ client' = update_client(valves)
  /\ rpc' = "idle"
  /\ UNCHANGED <<impl, pc, valves, messages, body_in, body, transport,
                 system_message, updated_messages, DeepSeekR1_messages,
                 filtered_body, bound_client, wire, result>>

----------------------------------------------------------------------------
(* Azure_Openai_Chatgpt_o1mini.py *)

O1_allowed_params ==
  {"messages", "temperature", "role", "content", "contentPart",
   "contentPartImage", "enhancements", "data_sources", "n", "stream", "stop",
   "max_tokens", "presence_penalty", "frequency_penalty", "logit_bias",
   "user", "function_call", "functions", "tools", "tool_choice", "top_p",
   "log_probs", "top_logprobs", "response_format", "seed"}

(* lines 73-74: body["user"].get("id", str(body["user"])) *)
RemapRaises(b) ==
  "user" \in DOMAIN b /\ b["user"].type \notin {"str", "dict", "dict_noid"}

RemapUser(b) ==
  IF "user" \in DOMAIN b /\ b["user"].type # "str"
    THEN [b EXCEPT !["user"] = PyVal("str", b["user"].val)]
    ELSE b

SseData(c) == [kind |-> "sse_data", text |-> c.text]

SseBlank == [kind |-> "sse_blank", text |-> <<>>]

SseDone == [kind |-> "sse_done", text |-> <<>>]

RECURSIVE wire_lines(_, _)
wire_lines(chunks, i) ==
  IF i > Len(chunks) THEN <<SseDone, SseBlank>>
  ELSE <<SseData(chunks[i]), SseBlank>> \o wire_lines(chunks, i + 1)

(* response.iter_lines(), line 95: the raw lines of the event stream *)
iter_lines(t) == wire_lines(t.chunks, 1)

(* lines 84-108, once requests.post has been called.  When post itself    *)
(* raises, the handler reads the local response, which was never bound.    *)
(* The JSONDecodeError of response.json() is a RequestException in         *)
(* requests 2.27 and later: the handler catches it, fails to parse the     *)
(* body again and appends the response text.                               *)
O1_Response(t, fb) ==
  IF t.fail \in {"connect", "timeout"} THEN Raised("UnboundLocalError")
  ELSE IF t.fail = "status" THEN ErrorStr("HTTPError", t.body_fmt)
  ELSE IF Truthy(Get(fb, "stream", Absent)) THEN IterResult(iter_lines(t))
  ELSE IF t.body_fmt # "json" THEN ErrorStr("JSONDecodeError", "text")
  ELSE DictResult

(* pipe, lines 50-108 *)
O1_Pipe ==
  /\ impl = "o1-mini"
  /\ pc = "pipe"
  /\ pc' = "done"
  /\ IF RemapRaises(body)
       THEN /\ result' = Raised("AttributeError")
            /\ UNCHANGED <<body, filtered_body, bound_client, wire>>
       ELSE /\ body' = RemapUser(body)
            /\ filtered_body' = Filter(body', O1_allowed_params)
            /\ bound_client' = ChatCompletionsClient(valves)
            /\ wire' = ClientComplete(wire,
                         Request(valves, valves.model, <<>>, filtered_body',
                                 Truthy(Get(filtered_body', "stream", PyFalse))))
            /\ result' = O1_Response(transport, filtered_body')
  /\ UNCHANGED <<impl, valves, client, rpc, messages, body_in, transport,
                 system_message, updated_messages, DeepSeekR1_messages>>

----------------------------------------------------------------------------
(* Inputs *)

Roles == {"system", "user", "assistant", "tool"}

Contents == {"", "a", "b"}

Entries == [role : Roles, content : Contents]

MsgLists(n) == UNION {[1..k -> Entries] : k \in 0..n}

PipeMessages ==
  { <<>>,
    <<[role |-> "user", content |-> "a"]>>,
    <<[role |-> "system", content |-> "b"], [role |-> "user", content |-> "a"]>>,
    <<[role |-> "user"]>>,
    <<[role |-> "system"]>>,
    <<[content |-> "a"]>> }

Fragments == {<<"x">>, <<"y">>}

Delta(t) == [kind |-> "delta", text |-> t]

Chunks ==
  {Delta(t) : t \in Fragments \cup {<<>>}}
    \cup {[kind |-> "no_choices", text |-> <<>>],
          [kind |-> "undecodable", text |-> <<>>]}

ChunkSeqs(n) == UNION {[1..k -> Chunks] : k \in 0..n}

PipeStreams ==
  { <<>>, <<Delta(<<"x">>)>>, <<Delta(<<"x">>), Delta(<<"y">>)>>,
    <<[kind |-> "no_choices", text |-> <<>>], Delta(<<"x">>),
      [kind |-> "undecodable", text |-> <<>>], Delta(<<"y">>)>> }

Transport(f, fmt, sh, c, cs) ==
  [fail |-> f, body_fmt |-> fmt, shape |-> sh, content |-> c, chunks |-> cs]

Healthy(cs) == Transport("none", "json", "choices", <<"x">>, cs)

Transports(streams) ==
  {Transport(f, "json", "choices", <<>>, <<>>) : f \in {"connect", "timeout"}}
    \cup {Transport("status", fmt, "choices", <<>>, <<>>) : fmt \in {"json", "text"}}
    \cup {Transport("none", "text", "choices", <<>>, <<>>)}
    \cup {Transport("none", "json", sh, <<"x">>, <<>>) :
            sh \in {"no_choices", "missing_fields"}}
    \cup {Healthy(cs) : cs \in streams}

UserOptions == {Absent, UserStr, UserObj, UserObjNoId, UserList}

StreamOptions == {Absent, PyTrue, PyFalse}

Present(k) == {Absent, PyVal("str", k)}

Bodies ==
  { MkBody([user |-> u, stream |-> s, chat_id |-> c, title |-> t,
            temperature |-> tp, seed |-> sd, foo |-> f]) :
      u \in UserOptions, s \in StreamOptions, c \in Present("chat_id"),
      t \in Present("title"), tp \in {Absent, PyVal("num", "0.5")},
      sd \in {Absent, PyVal("num", "7")}, f \in Present("foo") }

StreamBodies == {MkBody([k \in BodyKeys |-> IF k = "stream" THEN s ELSE Absent]) :
                   s \in {PyTrue, PyFalse}}

(* the state in which pipe is entered with the given arguments *)
Enter(i, v, m, b, t) ==
  /\ impl = i
  /\ pc = "pipe"
  /\ valves = v
  /\ client = IF i = "DeepSeekR1" THEN ChatCompletionsClient(v) ELSE NoClient
  /\ rpc = "idle"
  /\ messages = m
  /\ body_in = b
  /\ body = b
  /\ transport = t
  /\ system_message = ""
  /\ updated_messages = <<>>
  /\ DeepSeekR1_messages = <<>>
  /\ filtered_body = <<>>
  /\ bound_client = NoClient
  /\ wire = <<>>
  /\ result = NoResult

----------------------------------------------------------------------------
(* Specifications *)

Init ==
  \E i \in {"DeepSeekR1", "o1-mini"}, k \in {0, 1}, m \in PipeMessages,
     b \in Bodies, t \in Transports(PipeStreams) :
    Enter(i, Config(k), m, b, t)

Next ==
  \/ DS_Pipe
  \/ DS_BindClient
  \/ DS_GetCompletion
  \/ DS_StreamResponse
  \/ O1_Pipe

Spec == Init /\ [][Next]_vars

InitNorm ==
  \E m \in MsgLists(MaxMsgs), b \in StreamBodies :
    Enter("DeepSeekR1", Config(1), m, b, Healthy(<<Delta(<<"x">>)>>))

NextNorm ==
  \/ DS_Pipe
  \/ DS_BindClient
  \/ DS_GetCompletion
  \/ DS_StreamResponse

SpecNorm == InitNorm /\ [][NextNorm]_vars

InitStream ==
  \E i \in {"DeepSeekR1", "o1-mini"}, cs \in ChunkSeqs(MaxChunks) :
    Enter(i, Config(1), <<[role |-> "user", content |-> "a"]>>,
          MkBody([k \in BodyKeys |-> IF k = "stream" THEN PyTrue ELSE Absent]),
          Healthy(cs))

NextStream ==
  \/ DS_Pipe
  \/ DS_BindClient
  \/ DS_StreamResponse
  \/ O1_Pipe

SpecStream == InitStream /\ [][NextStream]_vars

InitReconf ==
  \E b \in StreamBodies, t \in Transports({<<Delta(<<"x">>)>>}) :
    Enter("DeepSeekR1", Config(0), <<[role |-> "user", content |-> "a"]>>, b, t)

NextReconf ==
  \/ DS_Pipe
  \/ DS_BindClient
  \/ DS_GetCompletion
  \/ DS_StreamResponse
  \/ SetValves
  \/ on_valves_updated

SpecReconf == InitReconf /\ [][NextReconf]_vars

----------------------------------------------------------------------------
(* Properties *)

Returned == pc = "done" /\ result.type # "raised"

Sent == wire # <<>>

(* C1: pipe always returns a value; no exception leaves it, whatever the   *)
(* body, the messages and the outcome of the transport.                    *)
C1_NeverRaises == pc = "done" => result.type \in {"str", "dict", "iter"}

(* C2: the variant of the returned value is decided by body.stream alone:  *)
(* a lazy sequence when it is truthy, a single string otherwise.           *)
C2_VariantByStream ==
  Returned =>
    IF is_stream(body_in) THEN result.type = "iter" ELSE result.type = "str"

(* C3: with the placeholder configuration still in place, pipe returns a   *)
(* ConfigurationError and makes no network attempt.                        *)
C3_PlaceholderRejected ==
  valves = Config(0) =>
    /\ wire = <<>>
    /\ pc = "done" => (result.payload = "error" /\ result.err = "ConfigurationError")

ScenarioD ==
  /\ {"chat_id", "title", "user"} \subseteq DOMAIN body_in
  /\ body_in["user"] = UserObj

AllowList == IF impl = "DeepSeekR1" THEN DS_allowed_params ELSE O1_allowed_params

OthersAllowedUnchanged(fp) ==
  \A k \in (DOMAIN fp) \ {"user"} :
    k \in AllowList /\ k \in DOMAIN body_in /\ fp[k] = body_in[k]

(* C4 as stated: for a body with chat_id, title and user = {id: "u1"}, the *)
(* parameters sent by either pipeline hold neither chat_id nor title, hold *)
(* user = "u1", and every other key is allow-listed with its value kept.   *)
C4_ScenarioD_Original ==
  (ScenarioD /\ Sent) =>
    LET fp == wire[1].params IN
      /\ "chat_id" \notin DOMAIN fp
      /\ "title" \notin DOMAIN fp
      /\ "user" \in DOMAIN fp
      /\ fp["user"] = PyVal("str", "u1")
      /\ OthersAllowedUnchanged(fp)

(* C4 amended: as above, except that user = "u1" is sent by the o1-mini    *)
(* pipeline only; the DeepSeekR1 pipeline strips user and sends none.      *)
C4_ScenarioD ==
  (ScenarioD /\ Sent) =>
    LET fp == wire[1].params IN
      /\ "chat_id" \notin DOMAIN fp
      /\ "title" \notin DOMAIN fp
      /\ impl = "o1-mini" => ("user" \in DOMAIN fp /\ fp["user"] = PyVal("str", "u1"))
      /\ impl = "DeepSeekR1" => "user" \notin DOMAIN fp
      /\ OthersAllowedUnchanged(fp)

C4_Witness ==
  /\ ScenarioD
  /\ Sent
  /\ impl = "DeepSeekR1"
  /\ {"foo", "seed", "temperature"} \subseteq DOMAIN body_in
  /\ "temperature" \in DOMAIN wire[1].params

SystemIdx(ms) == {i \in 1..Len(ms) : ms[i].role = "system"}

IsNotSystem(m) == m.role # "system"

Classified(m) ==
  [type |-> IF m.role = "user" THEN "UserMessage" ELSE "AssistantMessage",
   content |-> m.content]

Hoisted(ms, c) ==
  LET ns == SelectSeq(ms, IsNotSystem)
  IN <<[type |-> "SystemMessage", content |-> c]>>
       \o [j \in 1..Len(ns) |-> Classified(ns[j])]

Built == pc \in {"bind", "call", "done"}

(* C5 as stated: with exactly one system entry, whatever its content (the  *)
(* empty string included), the provider list starts with that system       *)
(* message, followed by the other entries in order, content unchanged,     *)
(* user classified as user and every other role as assistant.              *)
C5_Hoisting_Original ==
  (Built /\ Cardinality(SystemIdx(messages)) = 1) =>
    LET i == CHOOSE x \in SystemIdx(messages) : TRUE
    IN /\ DeepSeekR1_messages = Hoisted(messages, messages[i].content)
       /\ Sent => wire[1].messages = Hoisted(messages, messages[i].content)

(* C5 amended: the same for exactly one system entry whose content is not  *)
(* the empty string.                                                       *)
C5_Hoisting ==
  (Built /\ Cardinality(SystemIdx(messages)) = 1) =>
    LET i == CHOOSE x \in SystemIdx(messages) : TRUE
    IN messages[i].content # "" =>
         /\ DeepSeekR1_messages = Hoisted(messages, messages[i].content)
         /\ Sent => wire[1].messages = Hoisted(messages, messages[i].content)

C5_Witness ==
  /\ pc = "done"
  /\ Sent
  /\ Len(messages) = 3
  /\ messages[1].role = "tool"
  /\ messages[2].role = "user"
  /\ messages[3] = [role |-> "system", content |-> "b"]
  /\ messages[1].content # messages[2].content

LastSystem(ms) == CHOOSE i \in SystemIdx(ms) : \A j \in SystemIdx(ms) : j <= i

SystemTyped(pm) == {j \in 1..Len(pm) : pm[j].type = "SystemMessage"}

(* C6: with two or more system entries, pop_system_message returns the     *)
(* content of the last one, and no system entry is left in the returned    *)
(* list; the provider messages carry at most the last one's content as     *)
(* their system message.                                                   *)
C6_LastWins ==
  (Built /\ Cardinality(SystemIdx(messages)) >= 2) =>
    LET c == messages[LastSystem(messages)].content
    IN /\ system_message = c
       /\ \A j \in 1..Len(updated_messages) : updated_messages[j].role # "system"
       /\ Len(updated_messages) = Len(messages) - Cardinality(SystemIdx(messages))
       /\ \A j \in SystemTyped(DeepSeekR1_messages) :
            j = 1 /\ DeepSeekR1_messages[j].content = c
       /\ Len(DeepSeekR1_messages) =
            Len(updated_messages) + (IF c # "" THEN 1 ELSE 0)

C6_Witness ==
  /\ pc = "done"
  /\ Len(messages) = 3
  /\ messages[1] = [role |-> "system", content |-> "a"]
  /\ messages[2].role = "user"
  /\ messages[3] = [role |-> "system", content |-> "b"]
  /\ system_message = "b"

RECURSIVE JoinDeltas(_)
JoinDeltas(cs) ==
  IF cs = <<>> THEN <<>>
  ELSE (IF Head(cs).kind = "delta" THEN Head(cs).text ELSE <<>>)
         \o JoinDeltas(Tail(cs))

Undecodable(cs) == {i \in 1..Len(cs) : cs[i].kind = "undecodable"}

ValidDelta(c) == c.kind = "delta" /\ c.text # <<>>

(* C7: one undecodable chunk between two valid deltas does not abort       *)
(* stream_response: it is skipped and the returned text is d1 then d2.     *)
C7_MalformedSkipped ==
  (pc = "done" /\ impl = "DeepSeekR1" /\ Cardinality(Undecodable(transport.chunks)) = 1) =>
    LET i == CHOOSE x \in Undecodable(transport.chunks) : TRUE
    IN (/\ 1 < i
        /\ i < Len(transport.chunks)
        /\ ValidDelta(transport.chunks[i - 1])
        /\ ValidDelta(transport.chunks[i + 1]))
         => result = StrResult(JoinDeltas(transport.chunks))

FragmentsOf(cs) ==
  LET ds == SelectSeq(cs, ValidDelta)
  IN [j \in 1..Len(ds) |-> [kind |-> "fragment", text |-> ds[j].text]]

(* C8: for a stream of decodable chunks that carries the deltas d1..dn, a  *)
(* streaming call gives either the concatenation d1+...+dn (collect-all)   *)
(* or a sequence that yields exactly the fragments d1..dn in arrival order *)
(* (incremental).                                                          *)
C8_Aggregation ==
  (/\ Returned
   /\ Undecodable(transport.chunks) = {}
   /\ FragmentsOf(transport.chunks) # <<>>) =>
    /\ result.type = "str" => result.text = JoinDeltas(transport.chunks)
    /\ result.type = "iter" => result.items = FragmentsOf(transport.chunks)
    /\ result.type \in {"str", "iter"}

SameSnapshot(r) == r.endpoint = r.credential /\ r.credential = r.model

(* C9 as stated: every completion request carries an endpoint, a           *)
(* credential and a model id of one and the same configuration snapshot.   *)
C9_AtomicSwap_Original == \A i \in 1..Len(wire) : SameSnapshot(wire[i])

(* C9 amended: endpoint and credential of every request belong to one      *)
(* snapshot (the client is built from both at once); the model id belongs  *)
(* to that snapshot or to a later one.                                     *)
C9_ClientConsistent ==
  \A i \in 1..Len(wire) :
    /\ wire[i].endpoint = wire[i].credential
    /\ wire[i].model >= wire[i].endpoint

C9_Witness ==
  /\ pc = "done"
  /\ Sent
  /\ wire[1].endpoint = 1
  /\ wire[1].model = 2

MessagesOk ==
  \A i \in 1..Len(messages) : {"role", "content"} \subseteq DOMAIN messages[i]

UserOk == "user" \in DOMAIN body_in => body_in["user"].type \in {"str", "dict", "dict_noid"}

InputsOk == IF impl = "DeepSeekR1" THEN MessagesOk ELSE UserOk

(* C10: a call whose normalisation and filtering succeed issues exactly    *)
(* one network request, whatever its outcome; a call in which they fail    *)
(* issues none; never is a second request issued.                          *)
C10_OneRequest ==
  /\ Len(wire) <= 1
  /\ pc = "done" => Len(wire) = (IF InputsOk THEN 1 ELSE 0)

C10_Witness ==
  /\ pc = "done"
  /\ Len(wire) = 1
  /\ transport.fail = "timeout"
  /\ result.payload = "error"

====
